---- MODULE Spec2Model ----
(***************************************************************************)
(* mongocheck.py: log (the verbosity filter) and sanity_checks (the fixed  *)
(* checklist run against one MongoDB cluster).                             *)
(*                                                                         *)
(* The cluster is the environment: every call made through the client     *)
(* library gets an answer chosen from the answers that call can produce    *)
(* (a result, or one of the exceptions it can raise).  One action is one   *)
(* block of sanity_checks.  `run` is one execution of sanity_checks;       *)
(* `twin` is a second execution against the same cluster (it is given the  *)
(* same answer whenever it makes the same call) under another verbosity.   *)
(***************************************************************************)
EXTENDS Integers, Sequences, FiniteSets, TLC

VARIABLES run, twin

vars == <<run, twin>>

\* Largest number of database names list_database_names() returns.
MaxDbs == 2
\* Largest number of collection names list_collection_names() returns.
MaxColls == 2

----------------------------------------------------------------------------
\* log(message, level, verbosity)

levels == [error |-> 0, warning |-> 1, info |-> 2]

Levels == DOMAIN levels

\* Strict comparison: a message at the threshold's own level is dropped.
logStrict(message, level, verbosity, stdout) ==
    IF levels[verbosity] > levels[level] THEN Append(stdout, message) ELSE stdout

\* stdout after the call: print(message) if levels[verbosity] >= levels[level].
log(message, level, verbosity, stdout) ==
    IF levels[verbosity] >= levels[level] THEN Append(stdout, message) ELSE stdout

----------------------------------------------------------------------------
\* Values

\* The text of a log call: its template and the values formatted into it.
Msg(text, arg) == [text |-> text, arg |-> arg]

\* A call made through the client; db and coll are 0 when the call has none.
Cmd(op, db, coll) == [op |-> op, db |-> db, coll |-> coll]

\* pymongo.errors.OperationFailure, ConnectionFailure (and its subclasses),
\* and any exception that is neither.
Errors == {"OperationFailure", "ConnectionFailure", "OtherError"}

Raised(e) == [r |-> e, v |-> <<>>]

Names(n) == [k \in 1..n |-> k]

\* MongoClient(uri) cannot be rejected by a server command.
ConnectAnswers == {Raised(e) : e \in {"ok", "ConnectionFailure", "OtherError"}}

CommandAnswers == {Raised(e) : e \in {"ok"} \cup Errors}

ListDatabasesAnswers ==
    {[r |-> "ok", v |-> Names(n)] : n \in 0..MaxDbs} \cup {Raised(e) : e \in Errors}

ListCollectionsAnswers ==
    {[r |-> "ok", v |-> Names(n)] : n \in 0..MaxColls} \cup {Raised(e) : e \in Errors}

\* The listCollections reply for one name: its first batch holds a document of
\* type "collection" or "view", holds no document, or holds one with no "type".
MetaAnswers == {"collection", "view", "emptyBatch", "noType"} \cup Errors

\* The validate reply: "valid" true, or false/absent.
ValidateAnswers == {"valid", "invalid"} \cup Errors

IndexAnswers == {"ok"} \cup Errors

\* The three calls of one pass of the collection loop; a call the pass does
\* not reach is "unasked".
CollectionAnswers ==
    {a \in [meta : MetaAnswers,
            validate : ValidateAnswers \cup {"unasked"},
            index : IndexAnswers \cup {"unasked"}] :
        /\ (a.validate = "unasked") <=> (a.meta # "collection")
        /\ (a.index = "unasked") <=> (a.validate \notin {"valid", "invalid"})}

\* find_one(): a document, None, or an exception.
FindOneAnswers == {"doc", "none"} \cup Errors

SampleAnswers ==
    [list : ListCollectionsAnswers, find : FindOneAnswers]

----------------------------------------------------------------------------
\* One execution of sanity_checks(uri, verbosity)

Start(verbosity) ==
    [verbosity |-> verbosity,
     pc |-> "connect",
     exc |-> "none",           \* the exception in flight, or that left the function
     client |-> "unbound",     \* the local `client`: unbound, open or closed
     databases |-> <<>>,
     i |-> 0,                  \* position of `for db_name in databases`
     collections |-> <<>>,
     j |-> 0,                  \* position of `for collection_name in collections`
     closes |-> 0,             \* calls of client.close()
     ping |-> "unasked",       \* what the ping command answered
     repl |-> "unasked",       \* what the replSetGetStatus command answered
     path |-> "running",       \* how the try body was left
     ops |-> {},               \* the kinds of call made so far
     reported |-> <<>>,        \* the list in the "Databases" message
     visited |-> <<>>,         \* the databases the loop has taken up
     step |-> "none",          \* the block that ran last, and what it did:
     heard |-> <<>>,           \*   the answers it got
     issued |-> <<>>,          \*   the calls it made
     said |-> <<>>,            \*   its log calls
     printed |-> <<>>]         \*   the lines it wrote

Begin(s, step) ==
    [s EXCEPT !.step = step, !.heard = <<>>, !.issued = <<>>,
              !.said = <<>>, !.printed = <<>>]

Hear(s, r) == [s EXCEPT !.heard = Append(@, r)]

Issue(s, op, db, coll) ==
    [s EXCEPT !.issued = Append(@, Cmd(op, db, coll)), !.ops = @ \cup {op}]

Say(s, text, arg, level) ==
    [s EXCEPT !.said = Append(@, [message |-> Msg(text, arg), level |-> level]),
              !.printed = log(Msg(text, arg), level, s.verbosity, @)]

\* An exception leaves the try body: ConnectionFailure is caught by the
\* outer handler, anything else passes through the finally block.
Raise(s, e) ==
    [s EXCEPT !.exc = e,
              !.pc = IF e = "ConnectionFailure" THEN "except" ELSE "finally",
              !.path = IF e = "ConnectionFailure" THEN "connectionFailure" ELSE "uncaught"]

----------------------------------------------------------------------------
\* The blocks of sanity_checks: the run after the block, given the run
\* before it and the cluster's answer.

\* client = MongoClient(uri); log("Connected")
StepConnect(s, a) ==
    LET s1 == Hear(Issue(Begin(s, "Connect"), "MongoClient", 0, 0), a.r)
    IN  IF a.r = "ok"
        THEN [Say([s1 EXCEPT !.client = "open"], "Connected", <<>>, "info")
                  EXCEPT !.pc = "ping"]
        ELSE Raise(s1, a.r)

\* The ping handler logs and falls through to the replica-set check.
PingFailedContinue(s) ==
    [Say(s, "PingFailed", <<>>, "error") EXCEPT !.pc = "repl"]

\* except OperationFailure: log(error); return
PingFailed(s) ==
    [Say(s, "PingFailed", <<>>, "error") EXCEPT !.pc = "finally", !.path = "pingFailed"]

\* try: client.admin.command("ping") ...
StepPing(s, a) ==
    LET s1 == Hear(Issue([Begin(s, "Ping") EXCEPT !.ping = a.r], "ping", 0, 0), a.r)
    IN  IF a.r = "ok"
        THEN [Say(s1, "PingOk", <<>>, "info") EXCEPT !.pc = "repl"]
        ELSE IF a.r = "OperationFailure" THEN PingFailed(s1)
        ELSE Raise(s1, a.r)

\* The replica-set handler lets the failure leave the try body.
ReplFailedRaise(s) == Raise(s, "OperationFailure")

\* except OperationFailure: log(warning)
ReplFailed(s) ==
    [Say(s, "ReplUnavailable", <<>>, "warning") EXCEPT !.pc = "listDbs"]

\* try: client.admin.command("replSetGetStatus") ...
StepReplSetStatus(s, a) ==
    LET s1 == Hear(Issue([Begin(s, "ReplSetStatus") EXCEPT !.repl = a.r],
                         "replSetGetStatus", 0, 0), a.r)
    IN  IF a.r = "ok"
        THEN [Say(s1, "ReplStatus", <<>>, "info") EXCEPT !.pc = "listDbs"]
        ELSE IF a.r = "OperationFailure" THEN ReplFailed(s1)
        ELSE Raise(s1, a.r)

\* The loop starts at the second database.
EnterDatabasesSkipFirst(s) ==
    IF Len(s.databases) < 2 THEN [s EXCEPT !.pc = "sample"]
    ELSE [s EXCEPT !.i = 2, !.pc = "forDb"]

\* for db_name in databases: the first pass, or none.
EnterDatabases(s) ==
    IF s.databases = <<>> THEN [s EXCEPT !.pc = "sample"]
    ELSE [s EXCEPT !.i = 1, !.pc = "forDb"]

\* for db_name in databases: the next pass, or the end of the loop.
EndOfDatabase(s) ==
    IF s.i < Len(s.databases) THEN [s EXCEPT !.i = @ + 1, !.pc = "forDb"]
    ELSE [s EXCEPT !.pc = "sample"]

\* for collection_name in collections: the next pass, or the end of the loop.
EndOfCollection(s) ==
    IF s.j < Len(s.collections) THEN [s EXCEPT !.j = @ + 1, !.pc = "forColl"]
    ELSE EndOfDatabase(s)

\* databases = client.list_database_names(); log("Databases")
StepListDatabases(s, a) ==
    LET s1 == Hear(Issue(Begin(s, "ListDatabases"), "listDatabaseNames", 0, 0), a.r)
    IN  IF a.r = "ok"
        THEN EnterDatabases(Say([s1 EXCEPT !.databases = a.v, !.reported = a.v],
                                "Databases", a.v, "info"))
        ELSE Raise(s1, a.r)

\* db = client[db_name]; collections = db.list_collection_names(); log("Validating")
StepNextDatabase(s, a) ==
    LET d  == s.databases[s.i]
        s1 == Hear(Issue(Begin(s, "NextDatabase"), "listCollectionNames", d, 0), a.r)
    IN  IF a.r = "ok"
        THEN LET s2 == Say([s1 EXCEPT !.collections = a.v, !.visited = Append(@, d)],
                           "Validating", <<d>>, "info")
             IN  IF a.v = <<>> THEN EndOfDatabase(s2)
                 ELSE [s2 EXCEPT !.j = 1, !.pc = "forColl"]
        ELSE Raise(s1, a.r)

\* The view branch logs and goes on to validate the view.
ViewBranchValidates(s, d, c, a) ==
    [s |-> Say(Issue(Say(s, "SkippingView", <<c>>, "warning"), "validate", d, c),
               "Valid", <<c>>, "info"),
     e |-> "none"]

\* if ...["type"] == "view": log(warning); continue
ViewBranch(s, d, c, a) ==
    [s |-> Say(s, "SkippingView", <<c>>, "warning"), e |-> "none"]

\* validation = db.command({"validate": ...}) and what follows it in the try
\* body: the run, and the exception the body raised ("none" if it ended).
ValidateAndIndexes(s, d, c, a) ==
    LET s1 == Hear(Issue(s, "validate", d, c), a.validate)
    IN  IF a.validate \in Errors THEN [s |-> s1, e |-> a.validate]
        ELSE LET s2 == IF a.validate = "valid"
                       THEN Say(s1, "Valid", <<c>>, "info")
                       ELSE Say(s1, "Invalid", <<c>>, "error")
                 s3 == Hear(Issue(s2, "indexInformation", d, c), a.index)
             IN  IF a.index \in Errors THEN [s |-> s3, e |-> a.index]
                 ELSE [s |-> Say(s3, "Indexes", <<c>>, "info"), e |-> "none"]

\* The try body of one pass of the collection loop.
TryCollection(s, d, c, a) ==
    LET s1 == Hear(Issue(s, "listCollections", d, c), a.meta)
    IN  IF a.meta \in Errors THEN [s |-> s1, e |-> a.meta]
        ELSE IF a.meta = "emptyBatch" THEN [s |-> s1, e |-> "IndexError"]
        ELSE IF a.meta = "noType" THEN [s |-> s1, e |-> "KeyError"]
        ELSE IF a.meta = "view" THEN ViewBranch(s1, d, c, a)
        ELSE ValidateAndIndexes(s1, d, c, a)

\* One pass of `for collection_name in collections`: the try body and its
\* `except OperationFailure` handler.
StepValidateCollection(s, a) ==
    LET d == s.databases[s.i]
        c == s.collections[s.j]
        t == TryCollection(Begin(s, "ValidateCollection"), d, c, a)
    IN  IF t.e = "none" THEN EndOfCollection(t.s)
        ELSE IF t.e = "OperationFailure"
        THEN EndOfCollection(Say(t.s, "ValidateFailed", <<c>>, "error"))
        ELSE Raise(t.s, t.e)

\* Sampling reads the last collection of the first database.
SampleNameLast(names) == names[Len(names)]

\* sample_db.list_collection_names()[0]
SampleName(names) == names[1]

\* The data-sampling block.
StepSample(s, a) ==
    LET s1 == Say(Begin(s, "Sample"), "Checking", <<>>, "info")
    IN  IF s.databases = <<>> THEN Raise(s1, "IndexError")
        ELSE
        LET d  == s.databases[1]
            s2 == Hear(Issue(s1, "listCollectionNames", d, 0), a.list.r)
        IN  IF a.list.r \in Errors THEN Raise(s2, a.list.r)
            ELSE IF a.list.v = <<>> THEN Raise(s2, "IndexError")
            ELSE
            LET c  == SampleName(a.list.v)
                s3 == Hear(Issue(s2, "findOne", d, c), a.find)
            IN  IF a.find \in Errors THEN Raise(s3, a.find)
                ELSE IF a.find = "doc"
                THEN [Say(s3, "SampleDoc", <<c>>, "info")
                          EXCEPT !.pc = "finally", !.path = "completed"]
                ELSE [Say(s3, "NoDocuments", <<c>>, "warning")
                          EXCEPT !.pc = "finally", !.path = "completed"]

\* except ConnectionFailure: log(error)
StepExcept(s, a) ==
    [Say(Begin(s, "Except"), "ConnectFailed", <<>>, "error")
         EXCEPT !.exc = "none", !.pc = "finally"]

\* The finally block closes only under the most verbose threshold.
StepFinallyWhenInfo(s, a) ==
    LET s1 == Begin(s, "Finally")
    IN  IF s.client = "unbound" THEN [s1 EXCEPT !.exc = "UnboundLocalError", !.pc = "done"]
        ELSE IF s.verbosity # "info" THEN [s1 EXCEPT !.pc = "done"]
        ELSE [Say([Issue(s1, "close", 0, 0) EXCEPT !.client = "closed", !.closes = @ + 1],
                  "Closed", <<>>, "info")
                  EXCEPT !.pc = "done"]

\* finally: client.close(); log("Connection closed").  When MongoClient(uri)
\* raised, `client` was never bound and reading it raises UnboundLocalError,
\* which replaces whatever was in flight.
StepFinally(s, a) ==
    LET s1 == Begin(s, "Finally")
    IN  IF s.client = "unbound" THEN [s1 EXCEPT !.exc = "UnboundLocalError", !.pc = "done"]
        ELSE [Say([Issue(s1, "close", 0, 0) EXCEPT !.client = "closed", !.closes = @ + 1],
                  "Closed", <<>>, "info")
                  EXCEPT !.pc = "done"]

----------------------------------------------------------------------------
\* The two executions

\* The call an execution is about to make.
Call(s) ==
    <<s.pc,
      IF s.pc \in {"forDb", "forColl"} THEN s.databases[s.i] ELSE 0,
      IF s.pc = "forColl" THEN s.collections[s.j] ELSE 0>>

\* `run` takes the step; `twin` takes it too, with the same answer, if it is
\* about to make the same call.
Both(Step(_, _), a) ==
    /\ run' = Step(run, a)
    /\ twin' = IF Call(twin) = Call(run) THEN Step(twin, a) ELSE twin

Init ==
    \E v \in Levels, w \in Levels :
        /\ v # w
        /\ run = Start(v)
        /\ twin = Start(w)

Connect == run.pc = "connect" /\ \E a \in ConnectAnswers : Both(StepConnect, a)

Ping == run.pc = "ping" /\ \E a \in CommandAnswers : Both(StepPing, a)

ReplSetStatus == run.pc = "repl" /\ \E a \in CommandAnswers : Both(StepReplSetStatus, a)

ListDatabases == run.pc = "listDbs" /\ \E a \in ListDatabasesAnswers : Both(StepListDatabases, a)

NextDatabase == run.pc = "forDb" /\ \E a \in ListCollectionsAnswers : Both(StepNextDatabase, a)

ValidateCollection ==
    run.pc = "forColl" /\ \E a \in CollectionAnswers : Both(StepValidateCollection, a)

Sample == run.pc = "sample" /\ \E a \in SampleAnswers : Both(StepSample, a)

ExceptConnectionFailure == run.pc = "except" /\ Both(StepExcept, <<>>)

Finally == run.pc = "finally" /\ Both(StepFinally, <<>>)

Next ==
    \/ Connect
    \/ Ping
    \/ ReplSetStatus
    \/ ListDatabases
    \/ NextDatabase
    \/ ValidateCollection
    \/ Sample
    \/ ExceptConnectionFailure
    \/ Finally

Spec == Init /\ [][Next]_vars

----------------------------------------------------------------------------
\* Vocabulary of the properties

\* The ordering of the severities: error(0) < warning(1) < info(2).
rank == [l \in {"error", "warning", "info"} |->
            IF l = "error" THEN 0 ELSE IF l = "warning" THEN 1 ELSE 2]

\* The messages of the log calls of seq that a threshold lets through.
Passing(seq, threshold) ==
    LET kept == SelectSeq(seq, LAMBDA c : rank[c.level] <= rank[threshold])
    IN  [k \in 1..Len(kept) |-> kept[k].message]

Texts(seq) == {seq[k].text : k \in 1..Len(seq)}

SaidTexts(s) == {s.said[k].message.text : k \in 1..Len(s.said)}

HeardOf(s) == {s.heard[k] : k \in 1..Len(s.heard)}

\* Every call the checklist makes after the ping.
AfterPingOps ==
    {"replSetGetStatus", "listDatabaseNames", "listCollectionNames",
     "listCollections", "validate", "indexInformation", "findOne"}

\* The messages of database enumeration, collection validation and sampling.
AfterPingTexts ==
    {"ReplStatus", "ReplUnavailable", "Databases", "Validating", "SkippingView",
     "Valid", "Invalid", "Indexes", "ValidateFailed", "Checking", "SampleDoc",
     "NoDocuments"}

ClosedLine == Msg("Closed", <<>>)

----------------------------------------------------------------------------
\* C1: on every exit path of sanity_checks (also when MongoClient(uri) itself
\* fails) the connection is closed exactly once, and the finally block raises
\* no error of its own.
C1_ClosedExactlyOnce ==
    run.pc = "done" => (run.closes = 1 /\ run.exc # "UnboundLocalError")

\* C2 as stated: after a ping failure of any kind no later command is issued,
\* no enumeration or validation message is emitted, and the connection-closed
\* message is emitted, under every verbosity threshold.
C2_ClosedLineAlwaysEmitted ==
    run.ping \in Errors =>
        /\ run.ops \cap AfterPingOps = {}
        /\ SaidTexts(run) \cap AfterPingTexts = {}
        /\ Texts(run.printed) \cap AfterPingTexts = {}
        /\ run.pc = "done" => ClosedLine \in {run.printed[k] : k \in 1..Len(run.printed)}

\* C2 amended: after a ping failure of any kind no later command is issued and
\* no enumeration or validation message is logged; the connection is closed
\* once and the connection-closed message is logged at info, so it is printed
\* exactly when the threshold is info.
C2_PingFailureSkipsAndCloses ==
    run.ping \in Errors =>
        /\ run.ops \cap AfterPingOps = {}
        /\ SaidTexts(run) \cap AfterPingTexts = {}
        /\ Texts(run.printed) \cap AfterPingTexts = {}
        /\ run.pc = "done" =>
            /\ run.closes = 1
            /\ run.issued = <<Cmd("close", 0, 0)>>
            /\ run.said = <<[message |-> ClosedLine, level |-> "info"]>>
            /\ run.printed = IF run.verbosity = "info" THEN <<ClosedLine>> ELSE <<>>

C2_Witness ==
    /\ run.pc = "done"
    /\ run.ping = "ConnectionFailure"
    /\ run.verbosity = "warning"
    /\ run.closes = 1

\* C3: a log call writes its message iff rank(severity) <= rank(threshold),
\* and writes nothing else: the lines a block wrote are the messages of its
\* log calls that pass the threshold, in order.
C3_LogEmitsIffRank ==
    /\ run.printed = Passing(run.said, run.verbosity)
    /\ twin.printed = Passing(twin.said, twin.verbosity)

C3_Witness ==
    /\ run.verbosity = "warning"
    /\ Len(run.said) = 2
    /\ run.said[1].level = "error"
    /\ run.said[2].level = "info"
    /\ Len(run.printed) = 1

\* C4: when ping succeeds and the replica-set status command is rejected,
\* the checklist is not aborted: the failure is reported as one warning and
\* the next step is database enumeration, which is then always issued; a run
\* that no later step stops goes through every database and the sampling and
\* ends closed, with no exception and no fatal abort.
C4_ReplicaFailureIsNotFatal ==
    run.repl = "OperationFailure" =>
        /\ run.ping = "ok"
        /\ run.path # "pingFailed"
        /\ run.step = "ReplSetStatus" =>
            /\ run.pc = "listDbs"
            /\ run.exc = "none"
            /\ run.path = "running"
            /\ run.said = <<[message |-> Msg("ReplUnavailable", <<>>), level |-> "warning"]>>
        /\ run.step # "ReplSetStatus" => "listDatabaseNames" \in run.ops
        /\ run.path = "completed" =>
            /\ {"listDatabaseNames", "listCollectionNames", "findOne"} \subseteq run.ops
            /\ run.visited = run.databases
            /\ run.exc = "none"
            /\ run.pc = "done" => run.closes = 1

C4_Witness ==
    /\ run.pc = "done"
    /\ run.repl = "OperationFailure"
    /\ run.path = "completed"
    /\ Len(run.visited) = 2
    /\ "validate" \in run.ops

\* C5 as stated: for a name whose metadata says it is a view, validate and
\* index_information are not issued, exactly one warning and nothing else is
\* emitted, and the loop goes on with the next name.
C5_ViewEmitsOneWarning ==
    (run.step = "ValidateCollection" /\ run.heard = <<"view">>) =>
        /\ Len(run.issued) = 1
        /\ run.issued[1].op = "listCollections"
        /\ run.printed = <<Msg("SkippingView", <<run.issued[1].coll>>)>>
        /\ run.pc \in {"forColl", "forDb", "sample"}

\* C5 amended: for a name whose metadata says it is a view, validate and
\* index_information are not issued, exactly one message is logged for it, a
\* warning, which is printed unless the threshold is error, and the loop goes
\* on with the next name.
C5_ViewSkippedWithOneWarning ==
    (run.step = "ValidateCollection" /\ run.heard = <<"view">>) =>
        /\ Len(run.issued) = 1
        /\ run.issued[1].op = "listCollections"
        /\ run.said = <<[message |-> Msg("SkippingView", <<run.issued[1].coll>>),
                         level |-> "warning"]>>
        /\ run.printed = IF run.verbosity = "error" THEN <<>>
                         ELSE <<Msg("SkippingView", <<run.issued[1].coll>>)>>
        /\ run.exc = "none"
        /\ run.pc \in {"forColl", "forDb", "sample"}
        /\ run.issued[1].coll < Len(run.collections) =>
            /\ run.pc = "forColl"
            /\ run.collections[run.j] = run.issued[1].coll + 1
            /\ run.databases[run.i] = run.issued[1].db

C5_Witness ==
    /\ run.step = "ValidateCollection"
    /\ run.heard = <<"view">>
    /\ run.verbosity = "error"
    /\ run.pc = "forColl"

\* C6: a failure of any kind while fetching metadata, validating or listing
\* indexes for one collection (a rejected command, an empty metadata batch, a
\* missing type field) is reported as an error for that collection and the
\* loop goes on with the sibling collections and databases.
C6_CollectionFailureNeverAborts ==
    (/\ run.step = "ValidateCollection"
     /\ HeardOf(run) \cap {"OperationFailure", "emptyBatch", "noType"} # {}) =>
        /\ run.pc \in {"forColl", "forDb", "sample"}
        /\ run.exc = "none"
        /\ run.said # <<>>
        /\ run.said[Len(run.said)].level = "error"

\* C7: only a connection failure and a ping failure skip the rest of the
\* checklist: a command rejected in any other step is caught at its call site,
\* logged, and the later steps still run.
C7_OnlyConnectAndPingAbort ==
    (/\ run.step \in {"ReplSetStatus", "ListDatabases", "NextDatabase",
                      "ValidateCollection", "Sample"}
     /\ "OperationFailure" \in HeardOf(run)) =>
        /\ run.path \in {"running", "completed"}
        /\ run.exc = "none"
        /\ run.said # <<>>

\* What the sampling block did, read from the calls it made and the answers
\* it got.
SampledFirst(s) ==
    /\ Len(s.issued) = 2
    /\ s.issued[1] = Cmd("listCollectionNames", s.databases[1], 0)
    /\ s.issued[2] = Cmd("findOne", s.databases[1], 1)

NothingToSample(s) == s.databases = <<>> \/ s.heard = <<"ok">>

\* C8 as stated: sampling reads the first collection of the first database;
\* a document found is emitted in an info message, an empty collection emits
\* a warning and no document; with no database or no collection the step
\* raises an index error that is not caught, and the connection is still
\* closed.
C8_SampleMessagesEmitted ==
    /\ (run.step = "Sample" /\ run.heard = <<"ok", "doc">>) =>
        /\ SampledFirst(run)
        /\ "SampleDoc" \in Texts(run.printed)
    /\ (run.step = "Sample" /\ run.heard = <<"ok", "none">>) =>
        /\ SampledFirst(run)
        /\ "NoDocuments" \in Texts(run.printed)
        /\ "SampleDoc" \notin Texts(run.printed)
    /\ (run.step = "Sample" /\ NothingToSample(run)) =>
        /\ run.exc = "IndexError"
        /\ run.path = "uncaught"
        /\ run.pc = "finally"
    /\ (run.pc = "done" /\ run.exc = "IndexError") => run.closes = 1

\* C8 amended: sampling reads the first collection of the first database; a
\* document found is logged in an info message (printed at threshold info),
\* an empty collection logs a warning (printed at thresholds warning and
\* info) and no document; with no database or no collection the step raises
\* an index error that is not caught, no warning is logged, and the
\* connection is still closed.
C8_SampleFirstCollection ==
    /\ (run.step = "Sample" /\ run.heard = <<"ok", "doc">>) =>
        /\ SampledFirst(run)
        /\ run.said = <<[message |-> Msg("Checking", <<>>), level |-> "info"],
                        [message |-> Msg("SampleDoc", <<1>>), level |-> "info"]>>
        /\ run.printed = IF run.verbosity = "info"
                         THEN <<Msg("Checking", <<>>), Msg("SampleDoc", <<1>>)>>
                         ELSE <<>>
        /\ run.path = "completed"
    /\ (run.step = "Sample" /\ run.heard = <<"ok", "none">>) =>
        /\ SampledFirst(run)
        /\ run.said = <<[message |-> Msg("Checking", <<>>), level |-> "info"],
                        [message |-> Msg("NoDocuments", <<1>>), level |-> "warning"]>>
        /\ run.printed = IF run.verbosity = "info"
                         THEN <<Msg("Checking", <<>>), Msg("NoDocuments", <<1>>)>>
                         ELSE IF run.verbosity = "warning"
                         THEN <<Msg("NoDocuments", <<1>>)>>
                         ELSE <<>>
        /\ run.path = "completed"
    /\ (run.step = "Sample" /\ NothingToSample(run)) =>
        /\ run.exc = "IndexError"
        /\ run.path = "uncaught"
        /\ run.pc = "finally"
        /\ SaidTexts(run) = {"Checking"}
        /\ "findOne" \notin run.ops
    /\ (run.pc = "done" /\ run.exc = "IndexError") =>
        /\ run.closes = 1
        /\ run.client = "closed"

C8_Witness ==
    /\ run.step = "Sample"
    /\ run.heard = <<"ok", "none">>
    /\ run.verbosity = "error"
    /\ Len(run.databases) = 2

\* C9: in a run that reaches the sampling step, the databases in the
\* enumeration message are, in the same order and each once, the databases
\* the validation loop went through.
C9_ReportedEqualsIterated ==
    /\ (run.step = "ListDatabases" /\ run.heard = <<"ok">>) =>
        run.said = <<[message |-> Msg("Databases", run.reported), level |-> "info"]>>
    /\ (run.pc = "sample" \/ run.step = "Sample") =>
        /\ run.visited = run.reported
        /\ run.reported = run.databases

C9_Witness ==
    /\ run.pc = "sample"
    /\ Len(run.reported) = 2
    /\ run.visited = <<1, 2>>

\* What an execution did, apart from its threshold and the lines it wrote.
Control(s) == [s EXCEPT !.verbosity = "info", !.printed = <<>>]

\* The lines of an info-threshold execution that a lower threshold keeps.
Kept(s, threshold) ==
    LET idx == SelectSeq([k \in 1..Len(s.printed) |-> k],
                         LAMBDA k : rank[s.said[k].level] <= rank[threshold])
    IN  [n \in 1..Len(idx) |-> s.printed[idx[n]]]

\* C10: two executions against the same cluster that differ only in the
\* threshold make the same calls (close included), are at the same place and
\* end the same way; the lines written under the lower threshold are the
\* lines written under info whose severity passes the lower threshold.
C10_VerbosityOnlyFilters ==
    /\ Control(run) = Control(twin)
    /\ twin.verbosity = "info" =>
        /\ Len(twin.printed) = Len(twin.said)
        /\ run.printed = Kept(twin, run.verbosity)
    /\ run.verbosity = "info" =>
        /\ Len(run.printed) = Len(run.said)
        /\ twin.printed = Kept(run, twin.verbosity)

C10_Witness ==
    /\ run.pc = "done"
    /\ twin.pc = "done"
    /\ run.path = "completed"
    /\ run.verbosity = "error"
    /\ twin.verbosity = "info"
    /\ twin.printed = <<ClosedLine>>
    /\ run.printed = <<>>
====
